---- MODULE Spec2Model ----
(***************************************************************************)
(* A model of the streaming MP4 demuxer of flv.js                          *)
(* (src/src/demux/mp4-demuxer.js): the box walk of parseChunks, the leaf   *)
(* box parsers, the sample-to-chunk resolver (_samDetails), the timing     *)
(* resolver (_timeDetials), the script-data step and the NAL framer.       *)
(*                                                                         *)
(* Bytes are modelled at the granularity the code reads them: a file is a  *)
(* flat sequence of box items (a container is its 8-byte header, followed  *)
(* by its children), every item with the size its header declares, and a   *)
(* chunk is a byte range of the file.  A JavaScript exception is an        *)
(* outcome of the handler: the assignments made before the throw stay.     *)
(***************************************************************************)
EXTENDS Integers, Sequences, FiniteSets, TLC

VARIABLES
    file,       \* the MP4 file behind the loader
    this,       \* the MP4Demuxer object's fields
    events,     \* the callbacks invoked so far, in order
    last,       \* the last operation: its arguments and its outcome
    nCalls,     \* number of parseChunks calls made
    flat,       \* sam2chk of the last call (a local of parseChunks, kept for inspection)
    sampleSrc   \* for every sample of videoTrack.samples, the flat record it was framed from

vars == <<file, this, events, last, nCalls, flat, sampleSrc>>

(***************************************************************************)
(* JavaScript values                                                       *)
(***************************************************************************)
\* null (constructor, lines 67-77) and undefined (a function that returns nothing)
NULL == [isNull |-> TRUE]
UNDEFINED == [isUndefined |-> TRUE]

\* undefined and NaN where the code expects an unsigned number (an offset, a size)
UNDEF == -1
NAN == -2

IsNum(x) == x >= 0

\* a + b on numbers that may be undefined or NaN
JsAdd(a, b) == IF IsNum(a) /\ IsNum(b) THEN a + b ELSE NAN

Max(a, b) == IF a >= b THEN a ELSE b
Min(a, b) == IF a <= b THEN a ELSE b

RECURSIVE Gcd(_, _)
Gcd(a, b) == IF b = 0 THEN a ELSE Gcd(b, a % b)

Abs(n) == IF n < 0 THEN -n ELSE n

\* Timestamps are JavaScript numbers: a rational n/d (the rounding of the
\* floating-point division is not modelled), NaN, -Infinity, or undefined.
TsNum(n, d) ==
    LET g == Gcd(Abs(n), d)
    IN [k |-> "num", n |-> n \div g, d |-> d \div g]
TsInt(n) == [k |-> "num", n |-> n, d |-> 1]
TsNaN == [k |-> "nan", n |-> 0, d |-> 1]
TsNegInf == [k |-> "-inf", n |-> 0, d |-> 1]
TsUndef == [k |-> "undef", n |-> 0, d |-> 1]

\* a >= b on timestamps (false if either is NaN or undefined)
TsGeq(a, b) ==
    \/ a.k = "num" /\ b.k = "num" /\ a.n * b.d >= b.n * a.d
    \/ a.k = "num" /\ b.k = "-inf"
    \/ a.k = "-inf" /\ b.k = "-inf"

(***************************************************************************)
(* 4.D  Sample-to-chunk resolver                                           *)
(***************************************************************************)
HOLE == [hole |-> TRUE, samCount |-> 0, sdi |-> 0]

\* AssignChk with the chunk at lastChk - 1 (0-based) taken into the range as well
AssignChkInclusive(chk, begin, lastChk, entry) ==
    LET lo == Max(begin, 1)
        hi == lastChk
        newLen == IF lo <= hi THEN Max(Len(chk), hi) ELSE Len(chk)
    IN [p \in 1..newLen |->
            IF p >= lo /\ p <= hi
            THEN [hole |-> FALSE, samCount |-> entry.samPerChk, sdi |-> entry.samDesIndex]
            ELSE IF p <= Len(chk) THEN chk[p] ELSE HOLE]

\* lines 411-416: chkEntris[j] = entry for j in begin-1 .. last-2 (0-based);
\* chk is 1-based here, and an assignment past the end lengthens the array
AssignChk(chk, begin, lastChk, entry) ==
    LET lo == Max(begin, 1)
        hi == lastChk - 1
        newLen == IF lo <= hi THEN Max(Len(chk), hi) ELSE Len(chk)
    IN [p \in 1..newLen |->
            IF p >= lo /\ p <= hi
            THEN [hole |-> FALSE, samCount |-> entry.samPerChk, sdi |-> entry.samDesIndex]
            ELSE IF p <= Len(chk) THEN chk[p] ELSE HOLE]

\* lines 409-418: the stsc entries, last to first
RECURSIVE FillChk(_, _, _, _)
FillChk(stsc, i, lastChkCount, chk) ==
    IF i = 0 THEN chk
    ELSE LET beginChkCount == stsc.entries[i].firstChk
         IN FillChk(stsc, i - 1, beginChkCount,
                    AssignChk(chk, beginChkCount, lastChkCount, stsc.entries[i]))

\* lines 425-436: the samples of chunk k (0-based chunk index k - 1)
RECURSIVE SamplesOfChunk(_, _, _, _, _, _)
SamplesOfChunk(stsz, k, l, samCount, samOffset, sampleIndex) ==
    IF l >= samCount THEN <<>>
    ELSE LET size == IF sampleIndex + 1 <= Len(stsz.samples)
                     THEN stsz.samples[sampleIndex + 1] ELSE UNDEF
             rec == [chkIndex |-> k - 1, indexInChk |-> l, offset |-> samOffset,
                     size |-> size, dts |-> TsUndef, pts |-> TsUndef, cts |-> UNDEF]
         IN <<rec>> \o SamplesOfChunk(stsz, k, l + 1, samCount,
                                      JsAdd(samOffset, size), sampleIndex + 1)

\* lines 420-437: the chunks in order; a chunk no stsc entry covers is a hole of
\* chkEntris, and writing its firstSamIndex throws, as does reading
\* stsz.samples when stsz is null
RECURSIVE ChunkLoop(_, _, _, _, _)
ChunkLoop(chk, stsz, stco, k, acc) ==
    IF k > Len(chk) THEN [kind |-> "ok", table |-> acc]
    ELSE IF chk[k].hole THEN [kind |-> "throw", table |-> acc]
    ELSE IF chk[k].samCount > 0 /\ (stsz = NULL \/ stsz = UNDEFINED)
         THEN [kind |-> "throw", table |-> acc]
    ELSE LET samOffset == IF k <= Len(stco.entries) THEN stco.entries[k] ELSE UNDEF
         IN ChunkLoop(chk, stsz, stco, k + 1,
                      acc \o SamplesOfChunk(stsz, k, 0, chk[k].samCount, samOffset, Len(acc)))

\* line 438: the resolver's closing test compares its two counters
SampleCountOk(sampleIndex, sam2chk, stsz) == sampleIndex = Len(sam2chk)

\* _samDetails(stsc, stsz, stco): kind "ok" with the table, "undefined" when the
\* closing test fails, "throw" on a TypeError
SamReturn(r, stsz) ==
    IF r.kind = "throw" THEN r
    ELSE IF SampleCountOk(Len(r.table), r.table, stsz) THEN r
    ELSE [kind |-> "undefined", table |-> <<>>]

_samDetails(stsc, stsz, stco) ==
    IF stco = NULL \/ stco = UNDEFINED \/ stsc = NULL \/ stsc = UNDEFINED
    THEN [kind |-> "throw", table |-> <<>>]
    ELSE SamReturn(ChunkLoop(FillChk(stsc, stsc.entryCount, stco.entryCount + 1,
                                     [p \in 1..stco.entryCount |-> HOLE]),
                             stsz, stco, 1, <<>>), stsz)

(***************************************************************************)
(* 4.E  Timing resolver                                                    *)
(***************************************************************************)
\* line 453: startTime / mvhdts * mdhdts, on JavaScript numbers
TimeShift(startTime, mvhdts, mdhdts) ==
    IF ~IsNum(startTime) \/ ~IsNum(mvhdts) THEN TsNaN
    ELSE IF mvhdts = 0
         THEN (IF startTime = 0 \/ mdhdts = 0 THEN TsNaN ELSE TsNegInf)
    ELSE TsNum(-(startTime * mdhdts), mvhdts)

\* t + shift, where shift is the negated offset
TsShifted(t, shift) ==
    IF shift.k = "num" THEN TsNum(t * shift.d + shift.n, shift.d) ELSE shift

\* lines 457-459: Object.assign(sam[sampleIndex], {dts, cts: 0, pts: dts})
Stamp(sam, i, dts) == [sam EXCEPT ![i].dts = dts, ![i].cts = 0, ![i].pts = dts]

\* lines 451-461: the samples of one stts entry
RECURSIVE TimeRun(_, _, _, _, _, _)
TimeRun(sam, entry, j, dtsSum, shift, sampleIndex) ==
    IF j >= entry.samCount THEN [kind |-> "ok", table |-> sam]
    ELSE IF sampleIndex + 1 > Len(sam) THEN [kind |-> "throw", table |-> sam]
    ELSE TimeRun(Stamp(sam, sampleIndex + 1, TsShifted(dtsSum + entry.samDelta * j, shift)),
                 entry, j + 1, dtsSum, shift, sampleIndex + 1)

\* line 450: the loop bound is stts.entryCount, undefined when the field is absent
SttsLoopCount(stts) == IF IsNum(stts.entryCount) THEN stts.entryCount ELSE 0

\* lines 450-462: the stts entries in order
RECURSIVE TimeLoop(_, _, _, _, _, _)
\* after the run of entry i: the next entry, unless the run threw
TimeNext(r, stts, i, dtsSum, shift, sampleIndex) ==
    IF r.kind = "throw" THEN r
    ELSE TimeLoop(r.table, stts, i + 1,
                  dtsSum + stts.entries[i].samDelta * stts.entries[i].samCount,
                  shift, sampleIndex + stts.entries[i].samCount)

TimeLoop(sam, stts, i, dtsSum, shift, sampleIndex) ==
    IF i > SttsLoopCount(stts) THEN [kind |-> "ok", table |-> sam]
    ELSE IF i > Len(stts.entries) THEN [kind |-> "throw", table |-> sam]
    ELSE TimeNext(TimeRun(sam, stts.entries[i], 0, dtsSum, shift, sampleIndex),
                  stts, i, dtsSum, shift, sampleIndex)

\* _timeDetials(sam, mvhdts, mdhdts, stts, elst): the table with its timestamps,
\* or "throw" (elst without entries, stts null, more stts samples than records)
_timeDetials(sam, mvhdts, mdhdts, stts, elst) ==
    IF elst # NULL /\ Len(elst.entries) = 0 THEN [kind |-> "throw", table |-> sam]
    ELSE IF stts = NULL \/ stts = UNDEFINED THEN [kind |-> "throw", table |-> sam]
    ELSE TimeLoop(sam, stts, 1, 0,
                  TimeShift(IF elst # NULL THEN elst.entries[1].mediaTime ELSE 0, mvhdts, mdhdts),
                  0)

(***************************************************************************)
(* MP4 files: flat sequences of box items                                  *)
(***************************************************************************)
\* box header: 32-bit size and four-character type (spec 3, "Box header")
HeaderSize == 8

RECURSIVE TotalLen(_)
TotalLen(items) == IF items = <<>> THEN 0 ELSE Head(items).len + TotalLen(Tail(items))

\* a leaf box the walker skips (free, hdlr, vmhd, dinf, udta, ...)
Leaf(type, size) == [type |-> type, size |-> size, len |-> size]

\* a container box: its header, then its children
Container(type, children) ==
    <<[type |-> type, size |-> HeaderSize + TotalLen(children), len |-> HeaderSize]>> \o children

FtypBox ==
    [type |-> "ftyp", size |-> 32, len |-> 32, majorBrand |-> "isom", minorVersion |-> 512,
     compatBrands |-> <<"isom", "iso2", "avc1", "mp41">>]

MvhdBox(timescale, duration) ==
    [type |-> "mvhd", size |-> 108, len |-> 108, timescale |-> timescale, duration |-> duration]

TkhdBox(version, trackId) ==
    [type |-> "tkhd", size |-> IF version = 1 THEN 104 ELSE 92,
     len |-> IF version = 1 THEN 104 ELSE 92, version |-> version, trackId |-> trackId]

\* elst entries: [segDuration, mediaTime]
ElstBox(version, entries) ==
    [type |-> "elst", size |-> 16 + 12 * Len(entries), len |-> 16 + 12 * Len(entries),
     version |-> version, entries |-> entries]

MdhdBox(version, timescale, duration) ==
    [type |-> "mdhd", size |-> IF version = 1 THEN 44 ELSE 32,
     len |-> IF version = 1 THEN 44 ELSE 32,
     version |-> version, timescale |-> timescale, duration |-> duration]

\* the avcC record of an avc1 sample entry
AvcC(confVer, profile, lengthSizeMinusOne, spsLens, ppsNum) ==
    [confVer |-> confVer, profile |-> profile, lengthSizeMinusOne |-> lengthSizeMinusOne,
     spsLens |-> spsLens, ppsNum |-> ppsNum]

GoodAvcC == AvcC(1, 100, 3, <<24>>, 1)

\* stsd with one sample entry: 16 bytes of stsd header, 86 of avc1 fields, and avcC
StsdBox(entryType, width, height, avcC) ==
    LET n == 16 + 86 + 8 + 7 + 26 + 6
    IN [type |-> "stsd", size |-> n, len |-> n, entryType |-> entryType,
        width |-> width, height |-> height, avcC |-> avcC]

SttsBox(entries) ==
    [type |-> "stts", size |-> 16 + 8 * Len(entries), len |-> 16 + 8 * Len(entries),
     entries |-> entries]

StscBox(entries) ==
    [type |-> "stsc", size |-> 16 + 12 * Len(entries), len |-> 16 + 12 * Len(entries),
     entries |-> entries]

\* stsz: sampleSize, sampleCount, and the size entries the box holds
StszBox(sampleSize, sampleCount, sizes) ==
    [type |-> "stsz", size |-> 20 + 4 * Len(sizes), len |-> 20 + 4 * Len(sizes),
     sampleSize |-> sampleSize, sampleCount |-> sampleCount, sizes |-> sizes]

StcoBox(entries) ==
    [type |-> "stco", size |-> 16 + 4 * Len(entries), len |-> 16 + 4 * Len(entries),
     entries |-> entries]

\* A coded sample: its bytes are length-prefixed NAL units [size, type]
Nal(size, type) == [size |-> size, type |-> type]
IdrSample == [len |-> 9, nals |-> <<Nal(5, 5)>>]
PSample == [len |-> 7, nals |-> <<Nal(3, 1)>>]

RECURSIVE SamplesLen(_)
SamplesLen(samples) == IF samples = <<>> THEN 0 ELSE Head(samples).len + SamplesLen(Tail(samples))

MdatBox(samples) ==
    [type |-> "mdat", size |-> HeaderSize + SamplesLen(samples),
     len |-> HeaderSize + SamplesLen(samples), samples |-> samples]

Sizes(samples) == [i \in 1..Len(samples) |-> samples[i].len]

\* where the payload of mdat starts when the file is ftyp, free, mdat, moov
MdatFirstPayload == 32 + 8 + HeaderSize

\* the sample table boxes of a video track
Stbl(stsds, stts, stsc, samples, stco) ==
    Container("stbl", stsds \o <<SttsBox(stts), StscBox(stsc),
                                 StszBox(0, Len(samples), Sizes(samples)), StcoBox(stco)>>)

VideoTrak(edts, stbl) ==
    Container("trak", <<TkhdBox(0, 1)>> \o edts \o
        Container("mdia", <<MdhdBox(0, 90000, 6000), Leaf("hdlr", 45)>> \o
            Container("minf", stbl)))

Edts(mediaTime) == Container("edts", <<ElstBox(0, <<[segDuration |-> 0, mediaTime |-> mediaTime]>>)>>)

Moov(traks) == Container("moov", <<MvhdBox(1000, 66)>> \o traks)

RECURSIVE StartsOf(_, _)
StartsOf(items, at) ==
    IF items = <<>> THEN <<at>> ELSE <<at>> \o StartsOf(Tail(items), at + Head(items).len)

\* a file: its items, the file offset of every item (starts[n + 1] is the
\* file's length), and the coded samples that are the payload of mdat
File(samples, items) ==
    [nalLengthSize |-> 4, samples |-> samples, items |-> items, starts |-> StartsOf(items, 0)]

\* ftyp, free, mdat, moov: the layout probe assumes (infoOffset is the start of moov)
MdatFirstFile(samples, traks) ==
    File(samples, <<FtypBox, Leaf("free", 8), MdatBox(samples)>> \o Moov(traks))

\* ftyp, moov, mdat ("fast start")
MoovFirstFile(samples, traks) ==
    File(samples, <<FtypBox>> \o Moov(traks) \o <<MdatBox(samples)>>)

AvcStsd == StsdBox("avc1", 640, 360, GoodAvcC)

\* spec 8, scenario 3: one sample in one chunk at file offset payload, no edit list
OneSampleTrakAt(payload) ==
    VideoTrak(<<>>, Stbl(<<AvcStsd>>, <<[samCount |-> 1, samDelta |-> 3000]>>,
                         <<[firstChk |-> 1, samPerChk |-> 1, samDesIndex |-> 1]>>,
                         <<IdrSample>>, <<payload>>))

OneSampleTrak == OneSampleTrakAt(MdatFirstPayload)

\* where the payload of mdat starts when the file is ftyp, moov, mdat
MoovFirstPayload == 32 + TotalLen(Moov(OneSampleTrakAt(0))) + HeaderSize

\* two samples in one chunk, with an edit list; stsds are the stsd boxes of stbl
TwoSampleTrak(stsds) ==
    VideoTrak(Edts(9000), Stbl(stsds, <<[samCount |-> 2, samDelta |-> 3000]>>,
                               <<[firstChk |-> 1, samPerChk |-> 2, samDesIndex |-> 1]>>,
                               <<IdrSample, PSample>>, <<MdatFirstPayload>>))

\* a sample entry that is not avc1
Mp4vStsd == StsdBox("mp4v", 640, 360, GoodAvcC)

\* an avc1 entry whose avcC declares NAL lengths of 2 bytes (lengthSizeMinusOne = 1)
ShortLengthStsd == StsdBox("avc1", 640, 360, AvcC(1, 100, 1, <<24>>, 1))

\* the one-sample track with another sample entry
OtherCodecTrak ==
    VideoTrak(<<>>, Stbl(<<Mp4vStsd>>, <<[samCount |-> 1, samDelta |-> 3000]>>,
                         <<[firstChk |-> 1, samPerChk |-> 1, samDesIndex |-> 1]>>,
                         <<IdrSample>>, <<MdatFirstPayload>>))

\* ftyp, moov, mdat with an mdat whose size field is 0: the box extends to the
\* end of the file
OpenMdatFile(samples, traks) ==
    File(samples, <<FtypBox>> \o Moov(traks) \o <<[MdatBox(samples) EXCEPT !.size = 0]>>)

AllFiles ==
    { MdatFirstFile(<<IdrSample>>, OneSampleTrak),
      MdatFirstFile(<<IdrSample, PSample>>, TwoSampleTrak(<<AvcStsd, AvcStsd>>)),
      MoovFirstFile(<<IdrSample>>, OneSampleTrakAt(MoovFirstPayload)),
      MdatFirstFile(<<IdrSample>>, OtherCodecTrak),
      MdatFirstFile(<<IdrSample, PSample>>, TwoSampleTrak(<<AvcStsd, ShortLengthStsd>>)),
      OpenMdatFile(<<IdrSample>>, OneSampleTrakAt(MoovFirstPayload)) }

NumItems(f) == Len(f.items)

\* file offset of sample k: the samples are the payload of the mdat item
MdatIndex(f) == CHOOSE i \in 1..NumItems(f) : f.items[i].type = "mdat"
SampleStart(f, k) ==
    f.starts[MdatIndex(f)] + HeaderSize + SamplesLen(SubSeq(f.samples, 1, k - 1))

(***************************************************************************)
(* Chunks: byte ranges of the file, as the loader hands them to            *)
(* parseChunks(chunk, byteStart)                                           *)
(***************************************************************************)
\* a chunk holds items lo..hi, the last one with only its first `avail` bytes
ByteStart(f, ch) == f.starts[ch.lo]
ByteLength(f, ch) == f.starts[ch.hi] + ch.avail - f.starts[ch.lo]

\* a box whose body is cut off by the end of the chunk keeps its header and
\* 12 bytes more
CutLengths == {20}

\* the boxes a chunk starts at: the start of the file, and the start of moov
ChunkStartTypes == {"ftyp", "moov"}

\* the boxes the end of a chunk cuts
CutTypes == {"ftyp", "mvhd", "hdlr", "stsd", "mdat"}

Chunks(f) ==
    {[lo |-> lo, hi |-> hi, avail |-> a] :
        lo \in {i \in 1..NumItems(f) : f.items[i].type \in ChunkStartTypes},
        hi \in 1..NumItems(f),
        a \in CutLengths \cup {f.items[i].len : i \in 1..NumItems(f)}}

ValidChunk(f, ch) ==
    /\ ch.lo <= ch.hi
    /\ \/ ch.avail = f.items[ch.hi].len
       \/ /\ ch.avail \in CutLengths
          /\ ch.avail < f.items[ch.hi].len
          /\ f.items[ch.hi].type \in CutTypes

\* the item whose header starts at chunk offset o
BoxAt(f, ch, o) ==
    f.items[CHOOSE i \in ch.lo..ch.hi : f.starts[i] = ByteStart(f, ch) + o]

\* v.getUint32(offset) and ReadBoxName(v, offset + 4) throw a RangeError past the end
HeaderFits(f, ch, o) == o + HeaderSize <= ByteLength(f, ch)

\* new DataView(arrayBuffer, dataOffset, dataSize) throws a RangeError when the
\* declared box does not fit in the chunk; a declared size smaller than the
\* fields the parser reads makes the reads throw
CanView(f, ch, o, box) == box.size >= box.len /\ o + box.size <= ByteLength(f, ch)

(***************************************************************************)
(* The demuxer object                                                      *)
(***************************************************************************)
\* constructor, lines 40-123 (the fields the walk reads or writes); mediaInfo
\* keeps which of its fields are set
Constructed(hasAudio, hasVideo) ==
    [ftyp |-> NULL, elst |-> NULL, stsd |-> NULL, stsc |-> NULL, stsz |-> NULL,
     stco |-> NULL, stts |-> NULL,
     videoMetadata |-> NULL,
     firstParse |-> TRUE, dispatch |-> FALSE,
     hasAudio |-> hasAudio, hasVideo |-> hasVideo,
     hasAudioFlagOverrided |-> FALSE, hasVideoFlagOverrided |-> FALSE,
     audioInitialMetadataDispatched |-> FALSE, videoInitialMetadataDispatched |-> FALSE,
     naluLengthSize |-> 4, duration |-> 0, durationOverrided |-> FALSE,
     mediaInfo |-> [hasAudio |-> hasAudio, hasVideo |-> hasVideo, hasSize |-> FALSE,
                    hasCodec |-> FALSE, duration |-> UNDEF],
     videoTrack |-> [id |-> 1, samples |-> <<>>, length |-> 0],
     audioTrack |-> [id |-> 2, samples |-> <<>>, length |-> 0]]

\* _isInitialMetadataDispatched, lines 253-264
_isInitialMetadataDispatched(d) ==
    IF d.hasAudio /\ d.hasVideo
    THEN d.audioInitialMetadataDispatched /\ d.videoInitialMetadataDispatched
    ELSE IF d.hasAudio /\ ~d.hasVideo THEN d.audioInitialMetadataDispatched
    ELSE IF ~d.hasAudio /\ d.hasVideo THEN d.videoInitialMetadataDispatched
    ELSE FALSE

\* MediaInfo.isComplete: width, height, fps and codec all set; with audio, its
\* codec too, which this demuxer never sets
IsComplete(mi) == mi.hasSize /\ mi.hasCodec /\ ~mi.hasAudio

(***************************************************************************)
(* The context of one parseChunks call: the object, the callbacks invoked, *)
(* the walk's offset and whether the call is still running                 *)
(***************************************************************************)
Ev(cb, arg) == [cb |-> cb, arg |-> arg]

Emit(c, cb, arg) == [c EXCEPT !.events = Append(@, Ev(cb, arg))]
Throw(c) == [c EXCEPT !.st = "throw"]
Hang(c) == [c EXCEPT !.st = "hang"]
Skip(c, n) == [c EXCEPT !.offset = @ + n]

\* the pending-frames test of lines 394 and 766
HasPending(d) == d.dispatch /\ (d.audioTrack.length > 0 \/ d.videoTrack.length > 0)

(***************************************************************************)
(* 4.C  Leaf-box parsers                                                   *)
(***************************************************************************)
\* _parseFtyp, lines 465-482: the brands are read while offset + 4 < dataSize
_parseFtyp(box) ==
    [majorBrand |-> box.majorBrand, minorVersion |-> box.minorVersion,
     compatBrands |-> SubSeq(box.compatBrands, 1,
                             Min(Len(box.compatBrands), (box.size - 16 - 4 + 3) \div 4))]

\* _parseMvhd, lines 484-514
_parseMvhd(f, ch, c, box) ==
    IF ~CanView(f, ch, c.offset, box) THEN Throw(c)
    ELSE IF c.this.videoMetadata # NULL THEN c
    ELSE LET fix == ~c.this.hasVideo /\ ~c.this.hasVideoFlagOverrided
         IN [c EXCEPT !.this.hasVideo = IF fix THEN TRUE ELSE @,
                      !.this.mediaInfo.hasVideo = IF fix THEN TRUE ELSE @,
                      !.this.videoMetadata =
                          [id |-> c.this.videoTrack.id, timescale |-> box.timescale,
                           duration |-> box.duration, timescale_mdhd |-> UNDEF,
                           duration_mdhd |-> UNDEF, avcc |-> FALSE]]

\* _parseTkhd, lines 516-540: "ok" with whether this is the video trak, or "throw"
_parseTkhd(f, ch, c, box) ==
    IF ~CanView(f, ch, c.offset, box) \/ c.this.videoMetadata = NULL
    THEN [kind |-> "throw", isVideoTrak |-> FALSE]
    ELSE LET trackId == IF box.version \in {0, 1} THEN box.trackId ELSE 0
         IN [kind |-> "ok", isVideoTrak |-> trackId = c.this.videoMetadata.id]

\* _parseElst, lines 542-569: mediaTime is read for version 0 only
_parseElst(box) ==
    [entries |-> [i \in 1..Len(box.entries) |->
                    [segDuration |-> IF box.version = 0 THEN box.entries[i].segDuration ELSE UNDEF,
                     mediaTime |-> IF box.version = 0 THEN box.entries[i].mediaTime ELSE UNDEF]]]

\* _parseMdhd, lines 571-596
_parseMdhd(f, ch, c, box) ==
    IF ~CanView(f, ch, c.offset, box) THEN Throw(c)
    ELSE IF box.version # 0 THEN c
    ELSE IF c.this.videoMetadata = NULL THEN Throw(c)
    ELSE [c EXCEPT !.this.videoMetadata.timescale_mdhd = box.timescale,
                   !.this.videoMetadata.duration_mdhd = box.duration]

\* _parseStsc, lines 779-804
_parseStsc(box) == [entryCount |-> Len(box.entries), entries |-> box.entries]

RECURSIVE Sum(_)
Sum(s) == IF s = <<>> THEN 0 ELSE Head(s) + Sum(Tail(s))

\* _parseStsz, lines 806-831: sampleCount entries are read whatever sampleSize is;
\* "throw" when the box holds fewer
_parseStsz(box) ==
    IF Len(box.sizes) < box.sampleCount THEN [kind |-> "throw", value |-> NULL]
    ELSE [kind |-> "ok",
          value |-> [sampleSize |-> box.sampleSize, sampleCount |-> box.sampleCount,
                     samples |-> SubSeq(box.sizes, 1, box.sampleCount),
                     total |-> Sum(SubSeq(box.sizes, 1, box.sampleCount))]]

\* _parseStco, lines 833-852
_parseStco(box) == [entryCount |-> Len(box.entries), entries |-> box.entries]

\* _parseStts, lines 854-876: the entry count is read into a local and not stored
_parseStts(box) == [entryCount |-> UNDEF, entries |-> box.entries]

\* StsdDispatch without the notification of line 774
StsdDispatchSilent(c) ==
    [(IF _isInitialMetadataDispatched(c.this)
      THEN (IF HasPending(c.this) THEN Emit(c, "onDataAvailable", "") ELSE c)
      ELSE [c EXCEPT !.this.videoInitialMetadataDispatched = TRUE])
     EXCEPT !.this.dispatch = FALSE, !.stsdOk = @ + 1]

\* StsdDispatch with the notification moved into the not-yet-dispatched branch
StsdDispatchOnce(c) ==
    [(IF _isInitialMetadataDispatched(c.this)
      THEN (IF HasPending(c.this) THEN Emit(c, "onDataAvailable", "") ELSE c)
      ELSE Emit([c EXCEPT !.this.videoInitialMetadataDispatched = TRUE],
                "onTrackMetadata", "video"))
     EXCEPT !.this.dispatch = FALSE, !.stsdOk = @ + 1]

\* lines 764-774 of _parseStsd: flush the pending frames when the initial
\* metadata was dispatched already, else mark it dispatched; then notify
StsdDispatch(c) ==
    Emit([(IF _isInitialMetadataDispatched(c.this)
           THEN (IF HasPending(c.this) THEN Emit(c, "onDataAvailable", "") ELSE c)
           ELSE [c EXCEPT !.this.videoInitialMetadataDispatched = TRUE])
          EXCEPT !.this.dispatch = FALSE, !.stsdOk = @ + 1],
         "onTrackMetadata", "video")

\* line 739: if (mi.isComplete()) this._onMediaInfo(mi)
NotifyIfComplete(c) ==
    IF IsComplete(c.this.mediaInfo) THEN Emit(c, "onMediaInfo", "") ELSE c

\* lines 668-742 of _parseStsd: the first SPS fills the metadata and MediaInfo
StsdSps(c, avcC) ==
    IF Len(avcC.spsLens) = 0 \/ avcC.spsLens[1] = 0 THEN c
    ELSE NotifyIfComplete([c EXCEPT !.this.mediaInfo.hasSize = TRUE,
                                    !.this.mediaInfo.hasCodec = TRUE])

\* a return after this._onError(DemuxErrors.FORMAT_ERROR, ...)
StsdFail(c) == [c |-> Emit(c, "onError", "FORMAT_ERROR"), value |-> UNDEFINED]

\* lines 744-776: the PPS count, the dispatch and the value returned
StsdPps(c, box) ==
    IF box.avcC.ppsNum = 0 THEN StsdFail(c)
    ELSE [c |-> StsdDispatch(c),
          value |-> [avc1 |-> [width |-> box.width, height |-> box.height]]]

\* lines 654-666: c has the NAL length size stored already
StsdLengthSize(c, box) ==
    IF c.this.naluLengthSize # 3 /\ c.this.naluLengthSize # 4 THEN StsdFail(c)
    ELSE IF Len(box.avcC.spsLens) = 0 THEN StsdFail(c)
    ELSE StsdPps(StsdSps(c, box.avcC), box)

\* lines 642-654: c has meta.avcc stored already
StsdAvcC(c, box) ==
    IF box.avcC.confVer # 1 \/ box.avcC.profile = 0 THEN StsdFail(c)
    ELSE StsdLengthSize([c EXCEPT !.this.naluLengthSize = (box.avcC.lengthSizeMinusOne % 4) + 1],
                        box)

\* _parseStsd, lines 598-777: the context after the call and the value returned
\* (assigned to this.stsd by the caller unless the call throws)
_parseStsd(f, ch, c, box) ==
    IF ~CanView(f, ch, c.offset, box) THEN [c |-> Throw(c), value |-> UNDEFINED]
    ELSE IF box.entryType # "avc1" THEN [c |-> c, value |-> UNDEFINED]
    ELSE IF c.this.videoMetadata = NULL THEN [c |-> Throw(c), value |-> UNDEFINED]
    ELSE StsdAvcC([c EXCEPT !.this.videoMetadata.avcc = TRUE], box)

(***************************************************************************)
(* 4.B  The box walk of parseChunks, lines 309-381                         *)
(***************************************************************************)
\* this.stsz = this._parseStsz(...), lines 360-362
StoreStsz(c, r, size) ==
    IF r.kind = "throw" THEN Throw(c) ELSE Skip([c EXCEPT !.this.stsz = r.value], size)

\* a table parser's result stored in its field, lines 356-373
StoreTable(f, ch, c, box) ==
    IF ~CanView(f, ch, c.offset, box) THEN Throw(c)
    ELSE CASE box.type = "stsc" -> Skip([c EXCEPT !.this.stsc = _parseStsc(box)], box.size)
           [] box.type = "stco" -> Skip([c EXCEPT !.this.stco = _parseStco(box)], box.size)
           [] box.type = "stts" -> Skip([c EXCEPT !.this.stts = _parseStts(box)], box.size)
           [] box.type = "stsz" -> StoreStsz(c, _parseStsz(box), box.size)

\* lines 341-346: the box after the edts header is parsed if it is elst, and skipped
ElstCase(f, ch, c, box) ==
    IF box.type # "elst" THEN Skip(c, box.size)
    ELSE IF ~CanView(f, ch, c.offset, box) THEN Throw(c)
    ELSE Skip([c EXCEPT !.this.elst = _parseElst(box)], box.size)

\* case edts, lines 339-347; c is past the edts header
EdtsCase(f, ch, c) ==
    IF ~HeaderFits(f, ch, c.offset) THEN Throw(c)
    ELSE ElstCase(f, ch, c, BoxAt(f, ch, c.offset))

\* this.stsd = this._parseStsd(...), lines 353-354
StoreStsd(r, size) ==
    IF r.c.st # "run" THEN r.c ELSE Skip([r.c EXCEPT !.this.stsd = r.value], size)

\* case tkhd without the break of line 334: the walk stays in the trak
TkhdCaseNoBreak(c, r, size) ==
    IF r.kind = "throw" THEN Throw(c) ELSE Skip(c, size)

\* case tkhd, lines 329-338: brk tells the walk to leave the trak loop
TkhdCase(c, r, size) ==
    IF r.kind = "throw" THEN Throw(c)
    ELSE IF ~r.isVideoTrak THEN [c EXCEPT !.brk = TRUE]
    ELSE Skip(c, size)

\* offset += dataSize, lines 375 and 379: a size of 0 leaves the loop where it is
SkipBox(c, size) == IF size = 0 THEN Hang(c) ELSE Skip(c, size)

\* one pass of the switch of readTrak, lines 323-376
TrakStep(f, ch, c, box) ==
    CASE box.type \in {"mdia", "minf", "stbl"} -> Skip(c, HeaderSize)
      [] box.type = "tkhd" -> TkhdCase(c, _parseTkhd(f, ch, c, box), box.size)
      [] box.type = "edts" -> EdtsCase(f, ch, Skip(c, HeaderSize))
      [] box.type = "mdhd" -> Skip(_parseMdhd(f, ch, c, box), box.size)
      [] box.type = "stsd" -> StoreStsd(_parseStsd(f, ch, c, box), box.size)
      [] box.type \in {"stsc", "stsz", "stco", "stts"} -> StoreTable(f, ch, c, box)
      [] OTHER -> SkipBox(c, box.size)

\* readTrak, lines 319-377: the trak loop runs to the end of the chunk unless a
\* tkhd of another track breaks out of it
RECURSIVE TrakLoop(_, _, _)
TrakLoop(f, ch, c) ==
    IF c.st # "run" \/ c.brk \/ c.offset >= ByteLength(f, ch) THEN [c EXCEPT !.brk = FALSE]
    ELSE IF ~HeaderFits(f, ch, c.offset) THEN Throw(c)
    ELSE TrakLoop(f, ch, TrakStep(f, ch, c, BoxAt(f, ch, c.offset)))

\* case mvhd, lines 314-316
MvhdCase(c, size) == IF c.st # "run" THEN c ELSE SkipBox(c, size)

\* one pass of the outer loop, lines 310-380: only mvhd and trak are looked into
WalkStep(f, ch, c, box) ==
    CASE box.type = "mvhd" -> MvhdCase(_parseMvhd(f, ch, c, box), box.size)
      [] box.type = "trak" -> TrakLoop(f, ch, Skip(c, HeaderSize))
      [] OTHER -> SkipBox(c, box.size)

\* the outer loop, lines 309-381
RECURSIVE WalkLoop(_, _, _)
WalkLoop(f, ch, c) ==
    IF c.st # "run" \/ c.offset >= ByteLength(f, ch) THEN c
    ELSE IF ~HeaderFits(f, ch, c.offset) THEN Throw([c EXCEPT !.this.dispatch = TRUE])
    ELSE WalkLoop(f, ch, WalkStep(f, ch, [c EXCEPT !.this.dispatch = TRUE],
                                  BoxAt(f, ch, c.offset)))

(***************************************************************************)
(* _parseScriptData, lines 879-958                                         *)
(***************************************************************************)
\* lines 952-957: this._dispatch = false, then MediaInfo is notified if complete
ScriptDone(c) == NotifyIfComplete([c EXCEPT !.this.dispatch = FALSE])

\* lines 884-951: c has the size and the duration stored already
ScriptTables(c) ==
    IF c.this.stsz = NULL \/ c.this.stsz = UNDEFINED THEN Throw(c) ELSE ScriptDone(c)

_parseScriptData(c) ==
    IF c.this.stsd = NULL \/ c.this.stsd = UNDEFINED THEN Throw(c)
    ELSE ScriptTables([c EXCEPT !.this.mediaInfo.hasSize = TRUE,
                                !.this.duration = c.this.videoMetadata.duration,
                                !.this.mediaInfo.duration = c.this.videoMetadata.duration])

(***************************************************************************)
(* 4.G  NAL framer: _parseAVCVideoData, lines 977-1031                     *)
(***************************************************************************)
\* the sample of the file whose bytes start at file offset abs (0: none does)
SampleAt(f, abs) ==
    IF \E k \in 1..Len(f.samples) : SampleStart(f, k) = abs
    THEN CHOOSE k \in 1..Len(f.samples) : SampleStart(f, k) = abs
    ELSE 0

\* Bytes that are not a sample of the file read as some NAL unit: one whose
\* declared size exceeds the data ("drop"), or one that fills it ("fill")
GarbageKinds == {"drop", "fill"}
GarbageNals(g, dataSize, lengthSize) ==
    IF g = "drop" THEN <<Nal(dataSize, 0)>> ELSE <<Nal(dataSize - lengthSize, 1)>>

\* the NAL units of sample k when the framer reads all of it with the length
\* size of the file, and garbage otherwise
NalsOf(f, k, lengthSize, dataSize, g) ==
    IF k # 0 /\ f.samples[k].len = dataSize /\ lengthSize = f.nalLengthSize
    THEN f.samples[k].nals
    ELSE GarbageNals(g, dataSize, lengthSize)

\* the NAL units the framer reads at chunk offset dataOffset: the offset is
\* relative to the chunk, the sample table's offsets are relative to the file
NalsAt(f, ch, d, dataOffset, dataSize, g) ==
    NalsOf(f, SampleAt(f, ByteStart(f, ch) + dataOffset), d.naluLengthSize, dataSize, g)

\* a test that takes a non-IDR slice (type 1) for an IDR picture as well
IsIdrOrSlice(unitType) == unitType \in {1, 5}

\* line 1003: if (unitType === 5), the unit is an IDR picture
IsIdr(unitType) == unitType = 5

\* lines 986-1013: room is what the chunk holds from dataOffset on
RECURSIVE FrameLoop(_, _, _, _, _, _, _)
FrameLoop(nals, i, offset, dataSize, lengthSize, room, acc) ==
    IF offset >= dataSize \/ offset + 4 >= dataSize \/ i > Len(nals)
    THEN [acc EXCEPT !.kind = "ok"]
    ELSE IF nals[i].size > dataSize - lengthSize THEN [acc EXCEPT !.kind = "drop"]
    ELSE IF offset + lengthSize + nals[i].size > room THEN [acc EXCEPT !.kind = "throw"]
    ELSE FrameLoop(nals, i + 1, offset + lengthSize + nals[i].size, dataSize, lengthSize, room,
                   [acc EXCEPT !.units = Append(@, [type |-> nals[i].type % 32,
                                                      size |-> lengthSize + nals[i].size]),
                               !.keyframe = @ \/ IsIdr(nals[i].type % 32),
                               !.length = @ + lengthSize + nals[i].size])

\* lines 1015-1030: the units become one sample of the video track
FrameStore(c, rec, r, dts) ==
    IF r.kind = "throw" THEN Throw(c)
    ELSE IF r.kind = "drop" \/ r.units = <<>> THEN c
    ELSE [c EXCEPT !.this.videoTrack.samples =
                       Append(@, [units |-> r.units, length |-> r.length,
                                  isKeyframe |-> r.keyframe, dts |-> dts, cts |-> 0, pts |-> dts]),
                   !.this.videoTrack.length = @ + r.length,
                   !.src = Append(@, rec)]

\* the framer on a defined offset and size
FrameAt(f, ch, c, rec, dataOffset, dataSize, dts, g) ==
    IF dataOffset + dataSize > ByteLength(f, ch) THEN Throw(c)
    ELSE FrameStore(c, rec,
                    FrameLoop(NalsAt(f, ch, c.this, dataOffset, dataSize, g), 1, 0, dataSize,
                              c.this.naluLengthSize, ByteLength(f, ch) - dataOffset,
                              [kind |-> "ok", units |-> <<>>, keyframe |-> FALSE, length |-> 0]),
                    dts)

\* _parseAVCVideoData(chunk, dataOffset, dataSize, dts); rec is the flat record
\* the call is made for
_parseAVCVideoData(f, ch, c, rec, dts, g) ==
    IF IsNum(rec.offset) /\ rec.offset > ByteLength(f, ch) THEN Throw(c)
    ELSE IF ~IsNum(rec.size) THEN c
    ELSE FrameAt(f, ch, c, rec, IF IsNum(rec.offset) THEN rec.offset ELSE 0, rec.size, dts, g)

\* line 389: the dts argument is sam2chk.dts, a property the array does not have
DtsArgument(sam2chk, i) == TsUndef

\* lines 388-390
RECURSIVE FrameAll(_, _, _, _, _, _)
FrameAll(f, ch, c, sam2chk, i, g) ==
    IF c.st # "run" \/ i > Len(sam2chk) THEN c
    ELSE FrameAll(f, ch, _parseAVCVideoData(f, ch, c, sam2chk[i], DtsArgument(sam2chk, i), g),
                  sam2chk, i + 1, g)

(***************************************************************************)
(* 4.H  Stream driver: parseChunks, lines 267-400                          *)
(***************************************************************************)
\* ReadBig32(data, index), lines 26-31: bytes past the end read as 0
ReadBig32(f, ch, index) ==
    IF index >= ByteLength(f, ch) THEN 0 ELSE BoxAt(f, ch, index).size

\* the size at or below which the first chunk is not parsed, line 286
MinFirstChunk == 36

\* lines 160-171 of probe: dataOffset is the sum of the first two box sizes
Probed(f, ch, dataOffset) ==
    [match |-> TRUE, consumed |-> dataOffset, dataOffset |-> dataOffset,
     rawDataSize |-> ReadBig32(f, ch, dataOffset),
     infoOffset |-> dataOffset + ReadBig32(f, ch, dataOffset),
     hasAudioTrack |-> FALSE, hasVideoTrack |-> TRUE]

\* MP4Demuxer.probe, lines 147-172
probe(f, ch) ==
    IF BoxAt(f, ch, 0).type # "ftyp"
    THEN [match |-> FALSE, consumed |-> UNDEF, dataOffset |-> UNDEF, rawDataSize |-> UNDEF,
          infoOffset |-> UNDEF, hasAudioTrack |-> FALSE, hasVideoTrack |-> FALSE]
    ELSE Probed(f, ch, ReadBig32(f, ch, 0) + ReadBig32(f, ch, ReadBig32(f, ch, 0)))

\* lines 393-397: dispatch the parsed frames
DispatchFrames(c) ==
    IF _isInitialMetadataDispatched(c.this) /\ HasPending(c.this)
    THEN Emit(c, "onDataAvailable", "")
    ELSE c

\* lines 388-399: c is the context after _parseScriptData
AfterScript(f, ch, c, samKind, sam2chk, g) ==
    IF c.st # "run" THEN [c |-> c, sam2chk |-> sam2chk]
    ELSE IF samKind = "undefined" THEN [c |-> Throw(c), sam2chk |-> sam2chk]
    ELSE [c |-> DispatchFrames(FrameAll(f, ch, c, sam2chk, 1, g)), sam2chk |-> sam2chk]

\* lines 384-386: r2 is the outcome of _timeDetials
AfterTime(f, ch, c, samKind, r2, g) ==
    IF r2.kind = "throw" THEN [c |-> Throw(c), sam2chk |-> r2.table]
    ELSE AfterScript(f, ch, _parseScriptData(c), samKind, r2.table, g)

\* line 384: this._timeDetials(sam2chk, this._videoMetadata.timescale_mdhd,
\*                              this._videoMetadata.timescale, this.stts, this.elst)
ResolveTimes(sam2chk, meta, stts, elst) ==
    _timeDetials(sam2chk, meta.timescale_mdhd, meta.timescale, stts, elst)

\* lines 383-384: r1 is the outcome of _samDetails
AfterSam(f, ch, c, r1, g) ==
    IF r1.kind = "throw" \/ c.this.videoMetadata = NULL
    THEN [c |-> Throw(c), sam2chk |-> r1.table]
    ELSE AfterTime(f, ch, c, r1.kind,
                   ResolveTimes(r1.table, c.this.videoMetadata, c.this.stts, c.this.elst), g)

\* lines 383-399: resolve the sample tables, frame the samples, dispatch.
\* Returns the context and sam2chk.
Resolve(f, ch, c, g) ==
    AfterSam(f, ch, c, _samDetails(c.this.stsc, c.this.stsz, c.this.stco), g)

\* lines 303-381: the header read at offset (undefined reads at 0 and leaves
\* the offset NaN), the step into moov, the walk
WalkFrom(f, ch, c) ==
    IF ~IsNum(c.offset) THEN (IF HeaderFits(f, ch, 0) THEN c ELSE Throw(c))
    ELSE IF ~HeaderFits(f, ch, c.offset) THEN Throw(c)
    ELSE WalkLoop(f, ch, IF BoxAt(f, ch, c.offset).type = "moov" THEN Skip(c, HeaderSize) ELSE c)

\* lines 294-381: from the firstParse test to the end of the walk
Walk(f, ch, c) == WalkFrom(f, ch, [c EXCEPT !.this.firstParse = FALSE])

\* The outcome of a call: kind is "return" (value: the number returned), "throw"
\* or "hang"; tail tells whether line 383 was reached
Outcome(c, kind, value, tail, sam2chk) ==
    [c |-> c, kind |-> kind, value |-> value, tail |-> tail, sam2chk |-> sam2chk]

\* line 399: return offset
AfterResolve(r) ==
    IF r.c.st # "run" THEN Outcome(r.c, r.c.st, UNDEF, TRUE, r.sam2chk)
    ELSE Outcome(r.c, "return", r.c.offset, TRUE, r.sam2chk)

\* line 383 is reached when the walk ends
AfterWalk(f, ch, c, g) ==
    IF c.st # "run" THEN Outcome(c, c.st, UNDEF, FALSE, <<>>)
    ELSE AfterResolve(Resolve(f, ch, c, g))

\* lines 285-292: a chunk at byteStart 0 is probed if longer than 36 bytes
AfterFtyp(f, ch, c, g) ==
    IF ByteStart(f, ch) # 0 THEN AfterWalk(f, ch, Walk(f, ch, c), g)
    ELSE IF ByteLength(f, ch) <= MinFirstChunk THEN Outcome(c, "return", 0, FALSE, <<>>)
    ELSE AfterWalk(f, ch, Walk(f, ch, [c EXCEPT !.offset = probe(f, ch).infoOffset]), g)

\* lines 279-283: a leading ftyp is parsed before anything else
FtypCase(f, ch, c, box, g) ==
    IF box.type # "ftyp" THEN AfterFtyp(f, ch, c, g)
    ELSE IF ~CanView(f, ch, 0, box) THEN Outcome(c, "throw", UNDEF, FALSE, <<>>)
    ELSE AfterFtyp(f, ch, Skip([c EXCEPT !.this.ftyp = _parseFtyp(box)], box.size), g)

\* the locals of a call, lines 272-276
Enter(d, ev, src) ==
    [this |-> d, events |-> ev, offset |-> 0, st |-> "run", brk |-> FALSE, stsdOk |-> 0,
     src |-> src]

\* parseChunks(chunk, byteStart)
parseChunks(f, ch, d, ev, src, g) ==
    IF ~HeaderFits(f, ch, 0) THEN Outcome(Enter(d, ev, src), "throw", UNDEF, FALSE, <<>>)
    ELSE FtypCase(f, ch, Enter(d, ev, src), BoxAt(f, ch, 0), g)

(***************************************************************************)
(* The session: a demuxer fed with chunks of one file                      *)
(***************************************************************************)
MaxCalls == 2

\* what `last` holds before any operation; args are the arguments of a resolver
\* called on its own
NoCall == [op |-> "none", byteStart |-> 0, byteLength |-> 0, kind |-> "none", value |-> 0,
           tail |-> FALSE, evBase |-> 0, stsdOk |-> 0, samBase |-> 0, args |-> <<>>]

\* the demuxer is constructed with the result of a matching probe:
\* hasAudioTrack false and hasVideoTrack true, lines 156-157
Init ==
    /\ file \in AllFiles
    /\ this = Constructed(FALSE, TRUE)
    /\ events = <<>>
    /\ last = NoCall
    /\ nCalls = 0
    /\ flat = <<>>
    /\ sampleSrc = <<>>

\* the loader hands a chunk of the file to parseChunks; a call that never
\* returns is the last one
ParseChunks(ch, g) ==
    /\ nCalls < MaxCalls
    /\ last.kind # "hang"
    /\ ValidChunk(file, ch)
    /\ LET r == parseChunks(file, ch, this, events, sampleSrc, g)
       IN /\ this' = r.c.this
          /\ events' = r.c.events
          /\ sampleSrc' = r.c.src
          /\ flat' = r.sam2chk
          /\ last' = [op |-> "parseChunks", byteStart |-> ByteStart(file, ch),
                      byteLength |-> ByteLength(file, ch), kind |-> r.kind, value |-> r.value,
                      tail |-> r.tail, evBase |-> Len(events), stsdOk |-> r.c.stsdOk,
                      samBase |-> Len(this.videoTrack.samples), args |-> <<>>]
    /\ nCalls' = nCalls + 1
    /\ UNCHANGED file

Next == \E ch \in Chunks(file), g \in GarbageKinds : ParseChunks(ch, g)

Spec == Init /\ [][Next]_vars

(***************************************************************************)
(* The session on files whose moov holds several trak boxes                *)
(***************************************************************************)
\* a sound track: track id 2, an edit list, and tables of its own
AudioTrak ==
    Container("trak", <<TkhdBox(0, 2)>> \o Edts(4000) \o
        Container("mdia", <<MdhdBox(0, 44100, 7000), Leaf("hdlr", 45)>> \o
            Container("minf",
                Stbl(<<StsdBox("mp4a", 0, 0, GoodAvcC)>>,
                     <<[samCount |-> 2, samDelta |-> 1024]>>,
                     <<[firstChk |-> 1, samPerChk |-> 2, samDesIndex |-> 1]>>,
                     <<[len |-> 6, nals |-> <<>>], [len |-> 5, nals |-> <<>>]>>,
                     <<500>>))))

\* the sound track before the video track, after it, and on both sides
TrakFiles ==
    { MdatFirstFile(<<IdrSample>>, AudioTrak \o OneSampleTrak),
      MdatFirstFile(<<IdrSample>>, OneSampleTrak \o AudioTrak),
      MdatFirstFile(<<IdrSample>>, AudioTrak \o OneSampleTrak \o AudioTrak) }

InitTraks ==
    /\ file \in TrakFiles
    /\ this = Constructed(FALSE, TRUE)
    /\ events = <<>>
    /\ last = NoCall
    /\ nCalls = 0
    /\ flat = <<>>
    /\ sampleSrc = <<>>

\* the boxes a chunk of these files ends with (whole, or cut if CutTypes has
\* the type): the first box of a trak, a box in the middle of its tables, and
\* its last box
TrakChunkEnds == {"tkhd", "stsd", "stco"}

TrakChunks(f) == {ch \in Chunks(f) : f.items[ch.hi].type \in TrakChunkEnds}

NextTraks == \E ch \in TrakChunks(file), g \in GarbageKinds : ParseChunks(ch, g)

SpecTraks == InitTraks /\ [][NextTraks]_vars

(***************************************************************************)
(* The session with the duration overridden by the player between calls    *)
(***************************************************************************)
\* the durations the player forces, in milliseconds
OverridedDurations == {5000, 7000}

\* set overridedDuration(duration), lines 229-233
SetOverridedDuration(duration) ==
    /\ last.kind # "hang"
    /\ this' = [this EXCEPT !.durationOverrided = TRUE, !.duration = duration,
                            !.mediaInfo.duration = duration]
    /\ UNCHANGED <<file, events, last, nCalls, flat, sampleSrc>>

NextOverride ==
    \/ \E ch \in Chunks(file), g \in GarbageKinds : ParseChunks(ch, g)
    \/ \E duration \in OverridedDurations : SetOverridedDuration(duration)

SpecOverride == Init /\ [][NextOverride]_vars

(***************************************************************************)
(* The sample-to-chunk resolver on its own: _samDetails applied to the     *)
(* tables the leaf parsers return for bounded stsc, stsz and stco boxes    *)
(***************************************************************************)
MaxChunks == 2
MaxPerChunk == 2
MaxSamples == 3
MaxStscEntries == 2

SeqsUpTo(S, n) == UNION {[1..k -> S] : k \in 0..n}

StscInputs ==
    {_parseStsc(StscBox(e)) :
        e \in SeqsUpTo([firstChk : 1..MaxChunks, samPerChk : 0..MaxPerChunk, samDesIndex : {1}],
                       MaxStscEntries)}

\* sample k has 10 * k bytes
StszInputs == {_parseStsz(StszBox(0, n, [k \in 1..n |-> 10 * k])).value : n \in 0..MaxSamples}

\* chunk k is at file offset 100 * k
StcoInputs == {_parseStco(StcoBox([k \in 1..n |-> 100 * k])) : n \in 0..MaxChunks}

Scenario3File == MdatFirstFile(<<IdrSample>>, OneSampleTrak)

\* spec 8, scenario 4: stsc = [{1, 2, 1}, {3, 1, 1}], four chunks, five sizes
Scenario4Stsc ==
    _parseStsc(StscBox(<<[firstChk |-> 1, samPerChk |-> 2, samDesIndex |-> 1],
                         [firstChk |-> 3, samPerChk |-> 1, samDesIndex |-> 1]>>))
Scenario4Stsz == _parseStsz(StszBox(0, 5, [k \in 1..5 |-> 10 * k])).value
Scenario4Stco == _parseStco(StcoBox([k \in 1..4 |-> 100 * k]))

InitSam ==
    /\ file = Scenario3File
    /\ this = Constructed(FALSE, TRUE)
    /\ events = <<>>
    /\ \E stsc \in StscInputs \cup {Scenario4Stsc}, stsz \in StszInputs \cup {Scenario4Stsz},
             stco \in StcoInputs \cup {Scenario4Stco} :
          last = [NoCall EXCEPT !.op = "input",
                                !.args = [stsc |-> stsc, stsz |-> stsz, stco |-> stco]]
    /\ nCalls = 0
    /\ flat = <<>>
    /\ sampleSrc = <<>>

SamDetails ==
    /\ last.op = "input"
    /\ flat' = _samDetails(last.args.stsc, last.args.stsz, last.args.stco).table
    /\ last' = [last EXCEPT !.op = "_samDetails",
                            !.kind = _samDetails(last.args.stsc, last.args.stsz,
                                                 last.args.stco).kind]
    /\ UNCHANGED <<file, this, events, nCalls, sampleSrc>>

NextSam == SamDetails

SpecSam == InitSam /\ [][NextSam]_vars

(***************************************************************************)
(* The stsz parser followed by the resolver, on stsz boxes of both modes:  *)
(* per-sample sizes (sampleSize 0), and one constant size with no entries  *)
(***************************************************************************)
\* the sizes a constant-size stsz declares
ConstantSizes == {20}

StszBoxes ==
    {StszBox(0, n, [k \in 1..n |-> 10 * k]) : n \in 0..MaxSamples}
        \cup {StszBox(z, n, <<>>) : z \in ConstantSizes, n \in 0..MaxSamples}

InitStsz ==
    /\ file = Scenario3File
    /\ this = Constructed(FALSE, TRUE)
    /\ events = <<>>
    /\ \E stsc \in StscInputs, box \in StszBoxes, stco \in StcoInputs :
          last = [NoCall EXCEPT !.op = "box",
                                !.args = [stsc |-> stsc, stsz |-> NULL, stco |-> stco,
                                          box |-> box]]
    /\ nCalls = 0
    /\ flat = <<>>
    /\ sampleSrc = <<>>

\* this.stsz = this._parseStsz(chunk, offset, dataSize), lines 360-362
ParseStsz ==
    /\ last.op = "box"
    /\ last' = [last EXCEPT !.op = "_parseStsz",
                            !.kind = _parseStsz(last.args.box).kind,
                            !.args.stsz = _parseStsz(last.args.box).value]
    /\ UNCHANGED <<file, this, events, nCalls, flat, sampleSrc>>

\* line 383 with the stsz the parser returned
SamDetailsOfParsed ==
    /\ last.op = "_parseStsz"
    /\ last.kind = "ok"
    /\ flat' = _samDetails(last.args.stsc, last.args.stsz, last.args.stco).table
    /\ last' = [last EXCEPT !.op = "_samDetails",
                            !.kind = _samDetails(last.args.stsc, last.args.stsz,
                                                 last.args.stco).kind]
    /\ UNCHANGED <<file, this, events, nCalls, sampleSrc>>

NextStsz ==
    \/ ParseStsz
    \/ SamDetailsOfParsed

SpecStsz == InitStsz /\ [][NextStsz]_vars

(***************************************************************************)
(* The timing resolver on its own, as line 384 calls it, on the flat table *)
(* of a file, followed by the framing loop of lines 388-390                *)
(***************************************************************************)
\* the first box of a type in the file
BoxOfType(f, t) == f.items[CHOOSE i \in 1..NumItems(f) : f.items[i].type = t]

\* the flat table _samDetails returns for the file's own stsc, stsz and stco
FlatOf(f) ==
    _samDetails(_parseStsc(BoxOfType(f, "stsc")), _parseStsz(BoxOfType(f, "stsz")).value,
                _parseStco(BoxOfType(f, "stco"))).table

\* the chunk that is the whole file
WholeChunk(f) == [lo |-> 1, hi |-> NumItems(f), avail |-> f.items[NumItems(f)].len]

MaxSttsEntries == 2
MaxSttsCount == 2
Timescales == {1000, 90000}
MediaTimes == {0, 9000}
SampleDeltas == {1, 3000}

\* stts objects: the entries, and an entryCount that is either absent (as
\* _parseStts leaves it) or the number of entries
SttsInputs ==
    UNION {{[entryCount |-> n, entries |-> e] : n \in {UNDEF, Len(e)}} :
            e \in SeqsUpTo([samCount : 0..MaxSttsCount, samDelta : SampleDeltas], MaxSttsEntries)}

ElstInputs ==
    {NULL} \cup {_parseElst(ElstBox(0, <<[segDuration |-> 0, mediaTime |-> m]>>)) : m \in MediaTimes}

InitTime ==
    /\ file \in AllFiles
    /\ this = Constructed(FALSE, TRUE)
    /\ events = <<>>
    /\ \E stts \in SttsInputs, elst \in ElstInputs, mvhd \in Timescales, mdhd \in Timescales :
          last = [NoCall EXCEPT !.op = "input",
                                !.args = [meta |-> [timescale |-> mvhd, timescale_mdhd |-> mdhd],
                                          stts |-> stts, elst |-> elst]]
    /\ nCalls = 0
    /\ flat = FlatOf(file)
    /\ sampleSrc = <<>>

TimeDetials ==
    /\ last.op = "input"
    /\ flat' = ResolveTimes(flat, last.args.meta, last.args.stts, last.args.elst).table
    /\ last' = [last EXCEPT !.op = "_timeDetials",
                            !.kind = ResolveTimes(flat, last.args.meta, last.args.stts,
                                                  last.args.elst).kind]
    /\ UNCHANGED <<file, this, events, nCalls, sampleSrc>>

\* lines 388-390 on the whole file as one chunk
FramedAll(g) == FrameAll(file, WholeChunk(file), Enter(this, events, sampleSrc), flat, 1, g)

FrameSamples(g) ==
    /\ last.op = "_timeDetials"
    /\ last.kind = "ok"
    /\ this' = FramedAll(g).this
    /\ sampleSrc' = FramedAll(g).src
    /\ last' = [last EXCEPT !.op = "frame", !.kind = FramedAll(g).st,
                            !.samBase = Len(this.videoTrack.samples)]
    /\ UNCHANGED <<file, events, nCalls, flat>>

NextTime ==
    \/ TimeDetials
    \/ \E g \in GarbageKinds : FrameSamples(g)

SpecTime == InitTime /\ [][NextTime]_vars

(***************************************************************************)
(* MP4Demuxer.probe on its own, on the chunks that start a file            *)
(***************************************************************************)
InitProbe ==
    /\ file \in AllFiles
    /\ this = Constructed(FALSE, TRUE)
    /\ events = <<>>
    /\ \E ch \in Chunks(file) :
          /\ ValidChunk(file, ch)
          /\ ch.lo = 1
          /\ last = [NoCall EXCEPT !.op = "input", !.byteLength = ByteLength(file, ch),
                                   !.args = [chunk |-> ch]]
    /\ nCalls = 0
    /\ flat = <<>>
    /\ sampleSrc = <<>>

Probe ==
    /\ last.op = "input"
    /\ last' = [last EXCEPT !.op = "probe",
                            !.args = [chunk |-> last.args.chunk,
                                      probeData |-> probe(file, last.args.chunk)]]
    /\ UNCHANGED <<file, this, events, nCalls, flat, sampleSrc>>

NextProbe == Probe

SpecProbe == InitProbe /\ [][NextProbe]_vars

(***************************************************************************)
(* The NAL framer on its own: lines 388-390 on a file whose one sample is  *)
(* a bounded sequence of length-prefixed NAL units                         *)
(***************************************************************************)
MaxNals == 2

\* the sizes the length prefixes declare, the NAL header bytes (37 is type 5
\* with a bit of nal_ref_idc set), and the sizes of the sample in stsz
NalSizes == {1, 4, 10, 13}
NalTypes == {1, 5, 37}
DataSizes == {9, 16}

\* nals are the units the loop of lines 986-1013 reads in a sample of dataSize
\* bytes, no more and no fewer: it reads unit i at offset unless it has left
RECURSIVE Describes(_, _, _, _, _)
Describes(nals, i, offset, dataSize, lengthSize) ==
    IF offset >= dataSize \/ offset + 4 >= dataSize THEN i = Len(nals) + 1
    ELSE IF i > Len(nals) THEN FALSE
    ELSE IF nals[i].size > dataSize - lengthSize THEN i = Len(nals)
    ELSE Describes(nals, i + 1, offset + lengthSize + nals[i].size, dataSize, lengthSize)

FrameInputs ==
    {s \in [len : DataSizes, nals : SeqsUpTo([size : NalSizes, type : NalTypes], MaxNals)] :
        Describes(s.nals, 1, 0, s.len, 4)}

\* a track of the one sample s, in one chunk at the start of mdat
SampleTrak(s) ==
    VideoTrak(<<>>, Stbl(<<AvcStsd>>, <<[samCount |-> 1, samDelta |-> 3000]>>,
                         <<[firstChk |-> 1, samPerChk |-> 1, samDesIndex |-> 1]>>,
                         <<s>>, <<MdatFirstPayload>>))

InitFrame ==
    /\ \E s \in FrameInputs : file = MdatFirstFile(<<s>>, SampleTrak(s))
    /\ this = Constructed(FALSE, TRUE)
    /\ events = <<>>
    /\ last = [NoCall EXCEPT !.op = "input"]
    /\ nCalls = 0
    /\ flat = FlatOf(file)
    /\ sampleSrc = <<>>

\* lines 388-390 on the flat table of the file
FrameInput(g) ==
    /\ last.op = "input"
    /\ this' = FramedAll(g).this
    /\ sampleSrc' = FramedAll(g).src
    /\ last' = [last EXCEPT !.op = "frame", !.kind = FramedAll(g).st,
                            !.samBase = Len(this.videoTrack.samples)]
    /\ UNCHANGED <<file, events, nCalls, flat>>

NextFrame == \E g \in GarbageKinds : FrameInput(g)

SpecFrame == InitFrame /\ [][NextFrame]_vars

(***************************************************************************)
(* FetchStreamLoader: one loader object, its promise callbacks as actions  *)
(***************************************************************************)
\* LoaderStatus
kIdle == 0
kConnecting == 1
kBuffering == 2
kError == 3
kComplete == 4

MaxOpens == 2
MaxReads == 2

\* constructor, lines 63-83; callbacks tells whether the owner's callbacks are
\* set (destroy clears them)
NewLoader ==
    [status |-> kIdle, requestAbort |-> FALSE, receivedLength |-> 0, callbacks |-> TRUE]

\* isWorking, lines 98-100
isWorking(l) == l.status = kConnecting \/ l.status = kBuffering

\* this._onX(...) if the callback is set
Notify(ev, l, cb) == IF l.callbacks THEN Append(ev, Ev(cb, "")) ELSE ev

\* the promise whose callback runs next is in last.kind: "none", "fetch" (the
\* fetch of line 203) or "read" (the reader.read() of line 251)
InitLoader ==
    /\ file = Scenario3File
    /\ this = NewLoader
    /\ events = <<>>
    /\ last = [NoCall EXCEPT !.op = "loader"]
    /\ nCalls = 0
    /\ flat = <<>>
    /\ sampleSrc = <<>>

\* open(dataSource, range), lines 154-203: issued when no promise of an earlier
\* transfer is pending
Open ==
    /\ last.kind = "none"
    /\ nCalls < MaxOpens
    /\ this' = [this EXCEPT !.status = kConnecting]
    /\ last' = [last EXCEPT !.kind = "fetch"]
    /\ nCalls' = nCalls + 1
    /\ UNCHANGED <<file, events, flat, sampleSrc>>

\* abort(), lines 246-248
Abort ==
    /\ this' = [this EXCEPT !.requestAbort = TRUE]
    /\ UNCHANGED <<file, events, last, nCalls, flat, sampleSrc>>

\* destroy(), lines 85-95
Destroy ==
    /\ this' = [this EXCEPT !.requestAbort = IF isWorking(this) THEN TRUE ELSE @,
                            !.status = kIdle, !.callbacks = FALSE]
    /\ UNCHANGED <<file, events, last, nCalls, flat, sampleSrc>>

\* the fetch promise resolves, lines 203-235; ok is res.ok with a 2xx status
FetchResolved(ok) ==
    /\ last.kind = "fetch"
    /\ IF this.requestAbort
       THEN /\ this' = [this EXCEPT !.requestAbort = FALSE, !.status = kIdle]
            /\ last' = [last EXCEPT !.kind = "none"]
            /\ UNCHANGED events
       ELSE IF ok
       THEN /\ last' = [last EXCEPT !.kind = "read"]
            /\ UNCHANGED <<this, events>>
       ELSE /\ this' = [this EXCEPT !.status = kError]
            /\ last' = [last EXCEPT !.kind = "none"]
            /\ events' = Notify(events, this, "onError")
    /\ UNCHANGED <<file, nCalls, flat, sampleSrc>>

\* the fetch promise rejects, lines 236-243
FetchRejected ==
    /\ last.kind = "fetch"
    /\ this' = [this EXCEPT !.status = kError]
    /\ last' = [last EXCEPT !.kind = "none"]
    /\ events' = Notify(events, this, "onError")
    /\ UNCHANGED <<file, nCalls, flat, sampleSrc>>

\* reader.read() resolves with done, lines 252-256
ReadDone ==
    /\ last.kind = "read"
    /\ this' = [this EXCEPT !.status = kComplete]
    /\ last' = [last EXCEPT !.kind = "none"]
    /\ events' = Notify(events, this, "onComplete")
    /\ UNCHANGED <<file, nCalls, flat, sampleSrc>>

\* reader.read() resolves with a chunk (of one byte), lines 257-275
ReadChunk ==
    /\ last.kind = "read"
    /\ this.receivedLength < MaxReads
    /\ IF this.requestAbort
       THEN /\ this' = [this EXCEPT !.requestAbort = FALSE, !.status = kComplete]
            /\ last' = [last EXCEPT !.kind = "none"]
            /\ UNCHANGED events
       ELSE /\ this' = [this EXCEPT !.status = kBuffering, !.receivedLength = @ + 1]
            /\ events' = Notify(events, this, "onDataArrival")
            /\ UNCHANGED last
    /\ UNCHANGED <<file, nCalls, flat, sampleSrc>>

\* reader.read() rejects, lines 276-303
ReadRejected ==
    /\ last.kind = "read"
    /\ this' = [this EXCEPT !.status = kError]
    /\ last' = [last EXCEPT !.kind = "none"]
    /\ events' = Notify(events, this, "onError")
    /\ UNCHANGED <<file, nCalls, flat, sampleSrc>>

NextLoader ==
    \/ Open
    \/ Abort
    \/ Destroy
    \/ \E ok \in BOOLEAN : FetchResolved(ok)
    \/ FetchRejected
    \/ ReadDone
    \/ ReadChunk
    \/ ReadRejected

SpecLoader == InitLoader /\ [][NextLoader]_vars

(***************************************************************************)
(* Properties                                                              *)
(***************************************************************************)
\* the positions of the callbacks named cb
Positions(cb) == {i \in 1..Len(events) : events[i].cb = cb}

\* the callbacks invoked by the last operation
EventsOfLast == SubSeq(events, last.evBase + 1, Len(events))

\* a parseChunks call that ran to its return statement at line 399
Completed == last.op = "parseChunks" /\ last.tail /\ last.kind = "return"

\* C1: whenever _samDetails returns a table, the table has stsz.sampleCount
\* records, whatever the number of chunks in stco.
C1_TableLengthIsSampleCount ==
    (last.op = "_samDetails" /\ last.kind = "ok") => Len(flat) = last.args.stsz.sampleCount

\* C2: every onDataAvailable callback has an onTrackMetadata callback before it.
C2_MetadataBeforeData ==
    \A i \in Positions("onDataAvailable") : \E j \in Positions("onTrackMetadata") : j < i

\* C2, its case: a session in which onDataAvailable was invoked
C2_DataDelivered == Positions("onDataAvailable") # {}

\* C3, as stated: once the avcC record has parsed successfully, onTrackMetadata
\* has been invoked exactly once, however many chunks were fed and however many
\* stsd boxes were walked.
C3_MetadataExactlyOnce ==
    this.videoInitialMetadataDispatched => Cardinality(Positions("onTrackMetadata")) = 1

\* C3, amended: a parseChunks call invokes onTrackMetadata once for every stsd
\* box whose avcC record it parses successfully, and at no other time.
C3_MetadataPerParsedStsd ==
    last.op = "parseChunks" =>
        /\ Cardinality({i \in Positions("onTrackMetadata") : i > last.evBase}) = last.stsdOk
        /\ (last.stsdOk > 0 => this.videoInitialMetadataDispatched)

\* C3, its case: a session with two chunks fed, the last one walking two stsd boxes
C3_StsdWalkedAgain ==
    nCalls = 2 /\ last.stsdOk = 2 /\ Cardinality(Positions("onTrackMetadata")) > 2

\* C4: when a parseChunks call ends with the initial metadata dispatched and
\* samples pending in a track, the call has invoked onDataAvailable as its last
\* callback.
C4_DataAvailableAtEnd ==
    (Completed /\ _isInitialMetadataDispatched(this)
        /\ (this.videoTrack.length > 0 \/ this.audioTrack.length > 0))
    => (EventsOfLast # <<>> /\ events[Len(events)].cb = "onDataAvailable")

\* the tables the resolvers and the framer read
TablesParsed(d) ==
    \A t \in {d.stsc, d.stsz, d.stco, d.stts, d.stsd} : t # NULL /\ t # UNDEFINED

\* C5: a parseChunks call reaches the resolvers only once stsc, stsz, stco, stts
\* and stsd have all been parsed, and a call whose walk ends with one of them
\* missing returns normally.
C5_ResolversWaitForTables ==
    last.op = "parseChunks" =>
        /\ (last.tail => TablesParsed(this))
        /\ (last.tail /\ ~TablesParsed(this) => last.kind = "return")

\* the decode time of sample i (1-based) by the stts entries: T + samDelta * j
RECURSIVE SttsDts(_, _, _)
SttsDts(entries, i, T) ==
    IF entries = <<>> THEN UNDEF
    ELSE IF i <= Head(entries).samCount THEN T + Head(entries).samDelta * (i - 1)
    ELSE SttsDts(Tail(entries), i - Head(entries).samCount,
                 T + Head(entries).samDelta * Head(entries).samCount)

\* C6: with no edit list, after a call has run the timing resolver every record
\* of the flat table has dts = T_i + sampleDelta_i * j, pts = dts and cts = 0.
C6_DtsWithoutEditList ==
    (Completed /\ this.elst = NULL) =>
        \A i \in 1..Len(flat) :
            /\ flat[i].dts = TsInt(SttsDts(this.stts.entries, i, 0))
            /\ flat[i].pts = flat[i].dts
            /\ flat[i].cts = 0

\* stts entries that give every record of the table a decode time
SttsCovers(stts, n) == \A i \in 1..n : SttsDts(stts.entries, i, 0) # UNDEF

\* C7: with an edit list, the timing resolver subtracts
\* mediaTime * timescale_mdhd / timescale_mvhd from the dts of every sample.
C7_EditListShift ==
    (last.op = "_timeDetials" /\ last.kind = "ok" /\ last.args.elst # NULL
        /\ SttsCovers(last.args.stts, Len(flat)))
    => \A i \in 1..Len(flat) :
          flat[i].dts = TsNum(SttsDts(last.args.stts.entries, i, 0) * last.args.meta.timescale
                                - last.args.elst.entries[1].mediaTime
                                    * last.args.meta.timescale_mdhd,
                              last.args.meta.timescale)

\* C8: after a call has run the timing resolver, every record of the flat table
\* has a defined dts and the dts do not decrease along the table.
C8_DtsMonotonic ==
    Completed =>
        /\ \A i \in 1..Len(flat) : flat[i].dts.k = "num"
        /\ \A i \in 1..(Len(flat) - 1) : TsGeq(flat[i + 1].dts, flat[i].dts)

C10_ShortFirstChunk ==
    (last.op = "parseChunks" /\ last.byteStart = 0 /\ last.byteLength <= MinFirstChunk)
    => (last.kind = "return" /\ last.value = 0 /\ EventsOfLast = <<>>)

\* C11: probe on a buffer that begins with ftyp immediately followed by moov
\* returns match = true, dataOffset = the size of ftyp, and
\* infoOffset = dataOffset + rawDataSize.
C11_ProbeDataOffset ==
    (last.op = "probe" /\ file.items[2].type = "moov"
        /\ last.byteLength >= file.items[1].size + HeaderSize)
    => /\ last.args.probeData.match
       /\ last.args.probeData.dataOffset = file.items[1].size
       /\ last.args.probeData.infoOffset
            = last.args.probeData.dataOffset + last.args.probeData.rawDataSize

\* C12: a stsd whose sample entry is not avc1 is reported through onError with
\* CODEC_UNSUPPORTED (and no onTrackMetadata is sent for it).
C12_UnsupportedCodecReported ==
    (BoxOfType(file, "stsd").entryType # "avc1" /\ this.stsd = UNDEFINED)
    => /\ \E i \in 1..Len(events) : events[i] = Ev("onError", "CODEC_UNSUPPORTED")
       /\ Positions("onTrackMetadata") = {}

\* C13: once onError was invoked the session is over: no onTrackMetadata,
\* onMediaInfo or onDataAvailable follows it, in the same call or a later one.
C13_NothingAfterError ==
    \A i \in Positions("onError") : \A j \in (i + 1)..Len(events) :
        events[j].cb \notin {"onTrackMetadata", "onMediaInfo", "onDataAvailable"}

\* C14: in every state where the video metadata is marked dispatched, the NAL
\* length size of the demuxer is 3 or 4.
C14_DispatchedLengthSize ==
    this.videoInitialMetadataDispatched => this.naluLengthSize \in {3, 4}

\* C18: the box walk terminates for every chunk: no call of parseChunks stays
\* in the walk forever, whatever size a box declares.
C18_WalkTerminates == last.kind # "hang"

\* C19: the value parseChunks returns is between 0 and chunk.byteLength,
\* inclusive.
C19_ReturnWithinChunk ==
    (last.op = "parseChunks" /\ last.kind = "return")
    => (IsNum(last.value) /\ 0 <= last.value /\ last.value <= last.byteLength)

\* C15: every sample appended to the video track has isKeyframe = true if and
\* only if at least one of its recorded NAL units has type 5.
C15_KeyframeIffIdr ==
    \A k \in 1..Len(this.videoTrack.samples) :
        this.videoTrack.samples[k].isKeyframe
            <=> (\E u \in 1..Len(this.videoTrack.samples[k].units) :
                    this.videoTrack.samples[k].units[u].type = 5)

\* a sample of two units was appended as a keyframe for its second unit, whose
\* header byte has type 5 under the mask
C15_IdrSecondUnit ==
    /\ last.op = "frame"
    /\ Len(this.videoTrack.samples) = 1
    /\ this.videoTrack.samples[1].isKeyframe
    /\ Len(this.videoTrack.samples[1].units) = 2
    /\ this.videoTrack.samples[1].units[1].type # 5
    /\ file.samples[1].nals[2].type = 37

\* C16: a sample is appended only if every NAL unit's declared size fits in
\* the bytes of the sample that remain after its length prefix: the units of an
\* appended sample never take more bytes than the sample has.
C16_TruncatedSampleDropped ==
    \A k \in 1..Len(this.videoTrack.samples) :
        this.videoTrack.samples[k].length <= sampleSrc[k].size

\* C17: once overridedDuration has been set, the duration of the demuxer and
\* of MediaInfo are the override after any later call of parseChunks: a call
\* made with the override in force leaves both as they were.
C17_OverrideKept ==
    [][(this.durationOverrided /\ nCalls' = nCalls + 1)
        => /\ this'.duration = this.duration
           /\ this'.mediaInfo.duration = this.mediaInfo.duration]_vars

\* chunk k (0-based) is in the range of stsc entry i: from firstChunk[i] - 1 up
\* to firstChunk[i + 1] - 1, or to stco.entryCount for the last entry
StscRange(stsc, stco, i, k) ==
    /\ stsc.entries[i].firstChk - 1 <= k
    /\ k < (IF i < Len(stsc.entries) THEN stsc.entries[i + 1].firstChk - 1 ELSE stco.entryCount)

\* the positions of the records of chunk k in the flat table
RecordsOf(k) == {p \in 1..Len(flat) : flat[p].chkIndex = k}

\* the size stsz gives the sample at position q of the flat table
StszSize(stsz, q) == IF q <= Len(stsz.samples) THEN stsz.samples[q] ELSE UNDEF

\* the sum of the stsz sizes of the samples at positions from..to
RECURSIVE StszSum(_, _, _)
StszSum(stsz, from, to) ==
    IF from > to THEN 0 ELSE StszSize(stsz, from) + StszSum(stsz, from + 1, to)

\* C20: in the table the resolver returns, chunk k holds as many records as the
\* samplesPerChunk of the one stsc entry whose range contains k, numbered
\* 0, 1, ... within the chunk; the n-th record of chunk k follows n records of
\* the same chunk and has the offset stco.entries[k] plus the sizes of those n
\* samples; the records are in chunk order.
C20_SampleToChunk ==
    (last.op = "_samDetails" /\ last.kind = "ok")
    => LET stsc == last.args.stsc
           stsz == last.args.stsz
           stco == last.args.stco
       IN /\ \A k \in 0..(stco.entryCount - 1) : \A i \in 1..Len(stsc.entries) :
                (/\ StscRange(stsc, stco, i, k)
                 /\ \A j \in 1..Len(stsc.entries) : j # i => ~StscRange(stsc, stco, j, k))
                => /\ Cardinality(RecordsOf(k)) = stsc.entries[i].samPerChk
                   /\ {flat[p].indexInChk : p \in RecordsOf(k)}
                        = 0..(stsc.entries[i].samPerChk - 1)
          /\ \A p \in 1..Len(flat) :
                /\ flat[p].indexInChk < p
                /\ \A m \in 1..flat[p].indexInChk : flat[p - m].chkIndex = flat[p].chkIndex
                /\ flat[p].chkIndex < stco.entryCount
                   => IF \A m \in 1..flat[p].indexInChk : IsNum(StszSize(stsz, p - m))
                      THEN flat[p].offset = stco.entries[flat[p].chkIndex + 1]
                                + StszSum(stsz, p - flat[p].indexInChk, p - 1)
                      ELSE ~IsNum(flat[p].offset)
          /\ \A p \in 1..(Len(flat) - 1) :
                \/ flat[p].chkIndex < flat[p + 1].chkIndex
                \/ /\ flat[p].chkIndex = flat[p + 1].chkIndex
                   /\ flat[p].indexInChk + 1 = flat[p + 1].indexInChk

\* two stsc entries over two chunks: two samples in chunk 0, one in chunk 1,
\* the second sample of chunk 0 placed after the first one's 10 bytes
C20_TwoEntriesTwoChunks ==
    /\ last.op = "_samDetails"
    /\ last.kind = "ok"
    /\ Len(last.args.stsc.entries) = 2
    /\ StscRange(last.args.stsc, last.args.stco, 1, 0)
    /\ StscRange(last.args.stsc, last.args.stco, 2, 1)
    /\ Len(flat) = 3
    /\ flat[2].chkIndex = 0 /\ flat[2].indexInChk = 1 /\ flat[2].offset = 110
    /\ flat[3].chkIndex = 1 /\ flat[3].indexInChk = 0 /\ flat[3].offset = 200

\* every chunk of stco is in the range of exactly one stsc entry
WellCovered(stsc, stco) ==
    \A k \in 0..(stco.entryCount - 1) :
        Cardinality({i \in 1..Len(stsc.entries) : StscRange(stsc, stco, i, k)}) = 1

\* the number of samples stsc gives the chunks 0..k of stco
RECURSIVE ExpandedCount(_, _, _)
ExpandedCount(stsc, stco, k) ==
    IF k < 0 THEN 0
    ELSE stsc.entries[CHOOSE i \in 1..Len(stsc.entries) : StscRange(stsc, stco, i, k)].samPerChk
         + ExpandedCount(stsc, stco, k - 1)

\* C21: when the number of samples that stsc expands to over the chunks of
\* stco differs from stsz.sampleCount, the resolver fails and returns no table.
C21_MismatchDetected ==
    (/\ last.op = "_samDetails"
     /\ WellCovered(last.args.stsc, last.args.stco)
     /\ ExpandedCount(last.args.stsc, last.args.stco, last.args.stco.entryCount - 1)
            # last.args.stsz.sampleCount)
    => last.kind # "ok"

\* C22: for a stsz in constant-size mode (sampleSize # 0) the parser returns
\* without reading per-sample entries, and every record of the flat table the
\* resolver returns has the size stsz.sampleSize.
C22_ConstantSizeMode ==
    last.args.box.sampleSize # 0
    => /\ last.op = "_parseStsz" => (last.kind = "ok" /\ last.args.stsz.samples = <<>>)
       /\ (last.op = "_samDetails" /\ last.kind = "ok")
          => \A p \in 1..Len(flat) : flat[p].size = last.args.box.sampleSize

\* the index of the trak item whose tkhd has the track id of the video track
VideoTrakIndex(f) ==
    CHOOSE i \in 1..NumItems(f) :
        /\ f.items[i].type = "trak"
        /\ f.items[i + 1].type = "tkhd"
        /\ f.items[i + 1].trackId = Constructed(FALSE, TRUE).videoTrack.id

\* the box of type t inside the video trak
VideoBox(f, t) ==
    f.items[CHOOSE i \in 1..NumItems(f) :
                /\ f.items[i].type = t
                /\ f.starts[i] > f.starts[VideoTrakIndex(f)]
                /\ f.starts[i] < f.starts[VideoTrakIndex(f)] + f.items[VideoTrakIndex(f)].size]

\* C23: for a moov with several trak boxes in any order, every table of the
\* demuxer is either not filled or filled from the trak whose tkhd has the
\* video track id: the video trak has no edit list, so elst stays null, and
\* the other tables and the mdhd timescale are those of its boxes.
C23_TablesFromVideoTrak ==
    /\ this.elst = NULL
    /\ this.stsd \in {NULL, [avc1 |-> [width |-> VideoBox(file, "stsd").width,
                                        height |-> VideoBox(file, "stsd").height]]}
    /\ this.stsc \in {NULL, _parseStsc(VideoBox(file, "stsc"))}
    /\ this.stsz \in {NULL, _parseStsz(VideoBox(file, "stsz")).value}
    /\ this.stco \in {NULL, _parseStco(VideoBox(file, "stco"))}
    /\ this.stts \in {NULL, _parseStts(VideoBox(file, "stts"))}
    /\ this.videoMetadata # NULL
       => this.videoMetadata.timescale_mdhd \in {UNDEF, VideoBox(file, "mdhd").timescale}

\* a call walked a file whose sound trak comes first, and the video trak after
\* it was parsed: every table is filled
C23_LaterVideoTrakParsed ==
    /\ file.items[VideoTrakIndex(file) - 1].type = "stco"
    /\ Completed
    /\ this.stsd # NULL /\ this.stsc # NULL /\ this.stsz # NULL
    /\ this.stco # NULL /\ this.stts # NULL
    /\ this.videoMetadata.timescale_mdhd = 90000
    /\ Len(this.videoTrack.samples) >= 1

\* C24: across the calls of a session every record of the flat table is framed
\* and appended to the video track at most once: no two samples of the track
\* were framed from the same sample of the same chunk.
C24_AppendedOnce ==
    \A i \in 1..Len(sampleSrc) : \A j \in 1..Len(sampleSrc) :
        (i # j) => \/ sampleSrc[i].chkIndex # sampleSrc[j].chkIndex
                   \/ sampleSrc[i].indexInChk # sampleSrc[j].indexInChk

\* C25: in the fetch loader the _requestAbort flag is false whenever no
\* transfer is in progress, that is, when the status is kIdle, kComplete or
\* kError.
C25_AbortFlagClearWhenIdle ==
    (last.op = "loader" /\ this.status \in {kIdle, kComplete, kError}) => ~this.requestAbort

====
